---- MODULE Spec2Model ----
(***************************************************************************)
(* Cartograph: the DSL parser (src/lib/parser/parser.ts) and the concept   *)
(* map repository (src/lib/repository/concept-map.ts, types.ts).           *)
(*                                                                         *)
(* A JavaScript string is a sequence of one-character strings, so that     *)
(* trimming, the predicate regular expression, key construction and edge   *)
(* ids are computed character by character.  A text is the sequence of     *)
(* lines that text.split('\n') yields.                                     *)
(***************************************************************************)
EXTENDS Integers, Sequences, FiniteSets, TLC

VARIABLES
    \* ---- parseDSL (parser.ts:60-191) ----
    lines,            \* const lines = text.split('\n')
    i,                \* let i (0-based line index)
    pc,               \* position in parseDSL: "idle","scan","body","post","done"
    predicates,       \* const predicates: Parser.Predicate[]
    definitions,      \* const definitions: Record<string,string>, own properties in insertion order
    errors,           \* const errors: Parser.ParseError[]
    conceptName,      \* const conceptName of the definition being read
    definitionLines,  \* const definitionLines: string[]
    result,           \* the returned Parser.ParsedDeclarations
    \* ---- ConceptMap (concept-map.ts:8-10, types.ts FilterState) ----
    nodes,            \* Map<string, Node> in insertion order: sequence of [id, definition]
    edges,            \* Map<string, Edge> in insertion order: sequence of [id, source, target, relationship]
    activeNode,       \* filterState.activeNode
    maxDistance,      \* filterState.maxDistance
    selectedNodes,    \* filterState.selectedNodes
    bidirectional,    \* filterState.bidirectional
    activeRelationship, \* filterState.activeRelationship
    \* ---- a caller that builds a map from a text and exports it (page.tsx:78-86) ----
    parsed,           \* const parsed = parseDSL(text), kept by the caller
    dsl,              \* the string returned by toDSL()
    \* ---- a call of calculateDistance in progress (concept-map.ts:157-185) ----
    search            \* its arguments, queue and visited set, and what it returned

parserVars == <<lines, i, pc, predicates, definitions, errors, conceptName, definitionLines, result>>
mapVars == <<nodes, edges, activeNode, maxDistance, selectedNodes, bidirectional, activeRelationship>>
vars == <<lines, i, pc, predicates, definitions, errors, conceptName, definitionLines, result,
          nodes, edges, activeNode, maxDistance, selectedNodes, bidirectional, activeRelationship,
          parsed, dsl, search>>
callerVars == <<parsed, dsl, search>>
parserVarsButPc == <<lines, i, predicates, definitions, errors, conceptName, definitionLines, result>>

(***************************************************************************)
(* Bounds of the model                                                     *)
(***************************************************************************)
MaxLines == 4

(***************************************************************************)
(* JavaScript values                                                       *)
(***************************************************************************)
\* undefined
Undefined == [t |-> "undefined"]
\* a string value
Str(s) == [t |-> "string", s |-> s]
\* a function object (what a property inherited from Object.prototype holds)
FunctionObject == [t |-> "function"]
\* null
Null == [t |-> "null"]

\* JavaScript truthiness: undefined, null and the empty string are falsy
Truthy(v) == /\ v.t # "undefined"
             /\ v.t # "null"
             /\ (v.t = "string" => v.s # <<>>)

\* String.prototype.trim strips white space, line terminators included
IsWhitespace(c) == c \in {" ", "\t", "\n"}

RECURSIVE TrimStart(_)
TrimStart(s) == IF s # <<>> /\ IsWhitespace(Head(s)) THEN TrimStart(Tail(s)) ELSE s

RECURSIVE TrimEnd(_)
TrimEnd(s) == IF s # <<>> /\ IsWhitespace(s[Len(s)])
              THEN TrimEnd(SubSeq(s, 1, Len(s) - 1)) ELSE s

Trim(s) == TrimEnd(TrimStart(s))

\* tok occurs in s at (1-based) position p
OccursAt(s, p, tok) ==
    /\ p >= 1
    /\ p + Len(tok) - 1 <= Len(s)
    /\ SubSeq(s, p, p + Len(tok) - 1) = tok

\* String.prototype.includes
Includes(s, tok) == \E p \in 1..Len(s) : OccursAt(s, p, tok)

\* String.prototype.endsWith
EndsWith(s, tok) == Len(s) >= Len(tok) /\ OccursAt(s, Len(s) - Len(tok) + 1, tok)

\* Array.prototype.join
RECURSIVE Join(_, _)
Join(ss, sep) == IF ss = <<>> THEN <<>>
                 ELSE IF Len(ss) = 1 THEN ss[1]
                 ELSE ss[1] \o sep \o Join(Tail(ss), sep)

SetMin(S) == CHOOSE x \in S : \A y \in S : x <= y
SetMax(S) == CHOOSE x \in S : \A y \in S : x >= y

\* the positions p..q of s are all white space (\s*)
AllWhitespace(s, p, q) == \A k \in p..q : IsWhitespace(s[k])

(***************************************************************************)
(* parsePredicate (parser.ts:13-54)                                        *)
(***************************************************************************)
Dash2 == <<"-", "-">>
Arrow == <<"-", ">">>
Colon == <<":">>
Terminator == <<"-", "-", "-">>

\* the regular expression /^(.*?)\s*--\s*(.*?)\s*->\s*(.*)$/ of parser.ts:20,
\* read right to left: each operator says whether a suffix of the pattern
\* matches the line s from position q on
\*   \s*->\s*(.*)$
ArrowTailMatches(s, q) ==
    \E w \in 0..(Len(s) + 1 - q) :
        AllWhitespace(s, q, q + w - 1) /\ OccursAt(s, q + w, Arrow)

\*   (.*?)\s*->\s*(.*)$
RelTailMatches(s, p) ==
    \E k \in 0..(Len(s) + 1 - p) : ArrowTailMatches(s, p + k)

\*   \s*(.*?)\s*->\s*(.*)$ with the \s* taking w characters
AfterDashMatches(s, p, w) ==
    /\ p + w - 1 <= Len(s)
    /\ AllWhitespace(s, p, p + w - 1)
    /\ RelTailMatches(s, p + w)

\*   \s*--\s*(.*?)\s*->\s*(.*)$ with the first \s* taking w characters
DashTailMatchesWith(s, q, w) ==
    /\ AllWhitespace(s, q, q + w - 1)
    /\ OccursAt(s, q + w, Dash2)
    /\ \E w2 \in 0..Len(s) : AfterDashMatches(s, q + w + 2, w2)

DashTailMatches(s, q) ==
    \E w \in 0..(Len(s) + 1 - q) : DashTailMatchesWith(s, q, w)

\* line.match(...): the three captures under the regex's priorities (a lazy
\* group takes the shortest text that lets the rest match, \s* the longest).
\* Each operator fixes one more piece of the match, left to right.
\*   p5: position after "->"; the last \s* is greedy, (.*) takes the rest
MatchTarget(s, srcLen, p3, p4, p5) ==
    [t |-> "match",
     rawSource       |-> SubSeq(s, 1, srcLen),
     rawRelationship |-> SubSeq(s, p3, p4 - 1),
     rawTarget       |-> SubSeq(s, p5 + SetMax({w \in 0..(Len(s) + 1 - p5) :
                                                  AllWhitespace(s, p5, p5 + w - 1)}),
                                Len(s))]

\*   p4: position after the relationship; \s* before "->" is greedy
MatchArrow(s, srcLen, p3, p4) ==
    MatchTarget(s, srcLen, p3, p4,
                p4 + 2 + SetMax({w \in 0..(Len(s) + 1 - p4) :
                                   AllWhitespace(s, p4, p4 + w - 1)
                                   /\ OccursAt(s, p4 + w, Arrow)}))

\*   p3: position where the relationship starts; (.*?) is lazy
MatchRelationship(s, srcLen, p3) ==
    MatchArrow(s, srcLen, p3,
               p3 + SetMin({k \in 0..(Len(s) + 1 - p3) : ArrowTailMatches(s, p3 + k)}))

\*   p2: position after "--"; the \s* after it is greedy
MatchAfterDash(s, srcLen, p2) ==
    MatchRelationship(s, srcLen,
                      p2 + SetMax({w \in 0..Len(s) : AfterDashMatches(s, p2, w)}))

\*   srcLen: length of the source capture; the \s* before "--" is greedy
MatchSource(s, srcLen) ==
    MatchAfterDash(s, srcLen,
                   srcLen + 3 + SetMax({w \in 0..(Len(s) - srcLen) :
                                          DashTailMatchesWith(s, srcLen + 1, w)}))

\* variant: a greedy first group, (.*) for (.*?)
PredicateMatchGreedySource(s) ==
    IF ~ \E k \in 0..Len(s) : DashTailMatches(s, k + 1) THEN Null
    ELSE MatchSource(s, SetMax({k \in 0..Len(s) : DashTailMatches(s, k + 1)}))

\* or Null when the line does not match
PredicateMatch(s) ==
    IF ~ \E k \in 0..Len(s) : DashTailMatches(s, k + 1) THEN Null
    ELSE MatchSource(s, SetMin({k \in 0..Len(s) : DashTailMatches(s, k + 1)}))

\* a thrown Error: the message is kept as its fixed text, the line number it
\* names and the text it quotes
Thrown(text, lineNumber, detail) ==
    [ok |-> FALSE, text |-> text, line |-> lineNumber, detail |-> detail]

\* variant of HasInvalidTokens that looks for '--' only
HasInvalidTokensDashOnly(field) == Includes(field, Dash2)

HasInvalidTokens(field) == Includes(field, Dash2) \/ Includes(field, Arrow)

\* parser.ts:33-53: validation of the trimmed components
ValidateComponents(source, relationship, target, lineNumber) ==
    IF source = <<>> \/ relationship = <<>> \/ target = <<>>
    THEN Thrown("Empty components not allowed in predicate", lineNumber, <<>>)
    ELSE IF HasInvalidTokens(source)
    THEN Thrown("Invalid tokens in source concept", lineNumber, source)
    ELSE IF HasInvalidTokens(relationship)
    THEN Thrown("Invalid tokens in relationship", lineNumber, relationship)
    ELSE IF HasInvalidTokens(target)
    THEN Thrown("Invalid tokens in target concept", lineNumber, target)
    ELSE [ok |-> TRUE,
          predicate |-> [source |-> source,
                         relationship |-> relationship,
                         target |-> target]]

\* parser.ts:22-31: the match result, trimmed
CheckMatch(m, line, lineNumber) ==
    IF m = Null
    THEN Thrown("Invalid predicate syntax", lineNumber, line)
    ELSE ValidateComponents(Trim(m.rawSource), Trim(m.rawRelationship),
                            Trim(m.rawTarget), lineNumber)

parsePredicate(line, lineNumber) ==
    IF Includes(line, <<"\n">>)
    THEN Thrown("Newlines not allowed in predicate components", lineNumber, <<>>)
    ELSE CheckMatch(PredicateMatch(line), line, lineNumber)

(***************************************************************************)
(* The definitions object of parseDSL (parser.ts:63): a plain object, so   *)
(* reading a key it does not own falls through to Object.prototype         *)
(***************************************************************************)
\* property names every plain object inherits (two of them suffice here)
ObjectPrototypeKeys ==
    { <<"v", "a", "l", "u", "e", "O", "f">>,
      <<"c", "o", "n", "s", "t", "r", "u", "c", "t", "o", "r">> }

\* own property keys, in insertion order (Object.keys)
ObjectKeys(defs) == [k \in 1..Len(defs) |-> defs[k].key]

HasOwn(defs, key) == \E k \in 1..Len(defs) : defs[k].key = key

\* definitions[key]
DefinitionsGet(defs, key) ==
    IF HasOwn(defs, key)
    THEN Str(defs[CHOOSE k \in 1..Len(defs) : defs[k].key = key].value)
    ELSE IF key \in ObjectPrototypeKeys THEN FunctionObject
    ELSE Undefined

\* definitions[key] = value
DefinitionsSet(defs, key, value) ==
    IF HasOwn(defs, key)
    THEN [k \in 1..Len(defs) |->
            IF defs[k].key = key THEN [key |-> key, value |-> value] ELSE defs[k]]
    ELSE Append(defs, [key |-> key, value |-> value])

(***************************************************************************)
(* parseDSL (parser.ts:60-191), one action per path through the scan loop  *)
(***************************************************************************)
\* lines[i] (i is 0-based as in the source)
CurrentLine == lines[i + 1]

\* const line = lines[i].trim()
CurrentTrimmed == Trim(CurrentLine)

\* the catch block (parser.ts:122-131): one ParseError at line i + 1, then break
ParseError(index, thrown) ==
    [line |-> index + 1, column |-> 1,
     message |-> [text |-> thrown.text, line |-> thrown.line, detail |-> thrown.detail],
     type |-> "syntax"]

\* line.slice(0, -1).trim() of a header line
HeaderConcept(line) == Trim(SubSeq(line, 1, Len(line) - 1))

\* parser.ts:72-75: skip empty lines
SkipBlank ==
    /\ pc = "scan" /\ i < Len(lines)
    /\ CurrentTrimmed = <<>>
    /\ i' = i + 1
    /\ UNCHANGED <<lines, pc, predicates, definitions, errors, conceptName,
                   definitionLines, result>>
    /\ UNCHANGED mapVars
    /\ UNCHANGED callerVars

\* parser.ts:79-84: a header with an empty concept name throws
EmptyConceptName ==
    /\ pc = "scan" /\ i < Len(lines)
    /\ CurrentTrimmed # <<>> /\ EndsWith(CurrentTrimmed, Colon)
    /\ HeaderConcept(CurrentTrimmed) = <<>>
    /\ errors' = Append(errors,
                   ParseError(i, Thrown("Empty concept name in definition", i + 1, <<>>)))
    /\ pc' = "post"
    /\ UNCHANGED <<lines, i, predicates, definitions, conceptName, definitionLines, result>>
    /\ UNCHANGED mapVars
    /\ UNCHANGED callerVars

\* if (definitions[conceptName]) of parser.ts:87
IsDuplicateDefinition(defs, name) == Truthy(DefinitionsGet(defs, name))

\* parser.ts:86-89: duplicate definition throws
DuplicateDefinition ==
    /\ pc = "scan" /\ i < Len(lines)
    /\ CurrentTrimmed # <<>> /\ EndsWith(CurrentTrimmed, Colon)
    /\ HeaderConcept(CurrentTrimmed) # <<>>
    /\ IsDuplicateDefinition(definitions, HeaderConcept(CurrentTrimmed))
    /\ errors' = Append(errors,
                   ParseError(i, Thrown("Duplicate definition", i + 1,
                                        HeaderConcept(CurrentTrimmed))))
    /\ pc' = "post"
    /\ UNCHANGED <<lines, i, predicates, definitions, conceptName, definitionLines, result>>
    /\ UNCHANGED mapVars
    /\ UNCHANGED callerVars

\* parser.ts:79-93: an accepted header; move to the content lines
DefinitionStart ==
    /\ pc = "scan" /\ i < Len(lines)
    /\ CurrentTrimmed # <<>> /\ EndsWith(CurrentTrimmed, Colon)
    /\ HeaderConcept(CurrentTrimmed) # <<>>
    /\ ~ IsDuplicateDefinition(definitions, HeaderConcept(CurrentTrimmed))
    /\ conceptName' = HeaderConcept(CurrentTrimmed)
    /\ i' = i + 1
    /\ definitionLines' = <<>>
    /\ pc' = "body"
    /\ UNCHANGED <<lines, predicates, definitions, errors, result>>
    /\ UNCHANGED mapVars
    /\ UNCHANGED callerVars

\* parser.ts:95-105: a content line that is not the terminator
BodyLine ==
    /\ pc = "body" /\ i < Len(lines)
    /\ Trim(CurrentLine) # Terminator
    /\ definitionLines' = Append(definitionLines, CurrentLine)
    /\ i' = i + 1
    /\ UNCHANGED <<lines, pc, predicates, definitions, errors, conceptName, result>>
    /\ UNCHANGED mapVars
    /\ UNCHANGED callerVars

\* definitionLines.join('\n').trim() of parser.ts:113
DefinitionText(body) == Trim(Join(body, <<"\n">>))

\* parser.ts:98-100 and 107-114: the terminator ends the block and the definition is stored
BodyTerminator ==
    /\ pc = "body" /\ i < Len(lines)
    /\ Trim(CurrentLine) = Terminator
    /\ definitions' = DefinitionsSet(definitions, conceptName, DefinitionText(definitionLines))
    /\ i' = i + 1
    /\ pc' = "scan"
    /\ UNCHANGED <<lines, predicates, errors, conceptName, definitionLines, result>>
    /\ UNCHANGED mapVars
    /\ UNCHANGED callerVars

\* parser.ts:107-110: end of input inside a definition throws
MissingTerminator ==
    /\ pc = "body" /\ i >= Len(lines)
    /\ errors' = Append(errors,
                   ParseError(i, Thrown("Missing definition terminator",
                                        i - Len(definitionLines), conceptName)))
    /\ pc' = "post"
    /\ UNCHANGED <<lines, i, predicates, definitions, conceptName, definitionLines, result>>
    /\ UNCHANGED mapVars
    /\ UNCHANGED callerVars

\* parser.ts:117-121: a predicate line that parses
PredicateLine ==
    /\ pc = "scan" /\ i < Len(lines)
    /\ CurrentTrimmed # <<>> /\ ~ EndsWith(CurrentTrimmed, Colon)
    /\ parsePredicate(CurrentTrimmed, i + 1).ok
    /\ predicates' = Append(predicates, parsePredicate(CurrentTrimmed, i + 1).predicate)
    /\ i' = i + 1
    /\ UNCHANGED <<lines, pc, definitions, errors, conceptName, definitionLines, result>>
    /\ UNCHANGED mapVars
    /\ UNCHANGED callerVars

\* parser.ts:117-131: a predicate line on which parsePredicate throws
PredicateError ==
    /\ pc = "scan" /\ i < Len(lines)
    /\ CurrentTrimmed # <<>> /\ ~ EndsWith(CurrentTrimmed, Colon)
    /\ ~ parsePredicate(CurrentTrimmed, i + 1).ok
    /\ errors' = Append(errors, ParseError(i, parsePredicate(CurrentTrimmed, i + 1)))
    /\ pc' = "post"
    /\ UNCHANGED <<lines, i, predicates, definitions, conceptName, definitionLines, result>>
    /\ UNCHANGED mapVars
    /\ UNCHANGED callerVars

\* parser.ts:68: the while condition fails
ScanEnd ==
    /\ pc = "scan" /\ i >= Len(lines)
    /\ pc' = "post"
    /\ UNCHANGED <<lines, i, predicates, definitions, errors, conceptName,
                   definitionLines, result>>
    /\ UNCHANGED mapVars
    /\ UNCHANGED callerVars

\* `${p.source}--${p.relationship}-->${p.target}` of parser.ts:146-148
predicateKey(p) == p.source \o Dash2 \o p.relationship \o <<"-", "-", ">">> \o p.target

\* predicates.findIndex(p => key(p) === key), 1-based
FindIndexOfKey(preds, key) ==
    SetMin({k \in 1..Len(preds) : predicateKey(preds[k]) = key})

\* the elements of seq at the positions in keep, in order (Array.prototype.filter)
RECURSIVE FilterPositions(_, _, _)
FilterPositions(seq, keep, k) ==
    IF k > Len(seq) THEN <<>>
    ELSE (IF k \in keep THEN <<seq[k]>> ELSE <<>>) \o FilterPositions(seq, keep, k + 1)

\* parser.ts:145-150
uniquePredicates(preds) ==
    FilterPositions(preds,
                    {k \in 1..Len(preds) : FindIndexOfKey(preds, predicateKey(preds[k])) = k},
                    1)

\* Set.prototype.add on a Set kept in insertion order
SetAdd(seq, x) == IF \E k \in 1..Len(seq) : seq[k] = x THEN seq ELSE Append(seq, x)

\* variant of conceptsInPredicates that collects the sources only
RECURSIVE conceptsInPredicatesSourcesOnly(_)
conceptsInPredicatesSourcesOnly(preds) ==
    IF preds = <<>> THEN <<>>
    ELSE SetAdd(conceptsInPredicatesSourcesOnly(SubSeq(preds, 1, Len(preds) - 1)),
                preds[Len(preds)].source)

\* parser.ts:153-157
RECURSIVE conceptsInPredicates(_)
conceptsInPredicates(preds) ==
    IF preds = <<>> THEN <<>>
    ELSE LET before == conceptsInPredicates(SubSeq(preds, 1, Len(preds) - 1))
             p == preds[Len(preds)]
         IN SetAdd(SetAdd(before, p.source), p.target)

SeqHas(seq, x) == \E k \in 1..Len(seq) : seq[k] = x

Warning(type, concept) ==
    [line |-> 1, column |-> 1, message |-> concept, type |-> type]

RECURSIVE WarningsFor(_, _, _)
WarningsFor(concepts, others, type) ==
    IF concepts = <<>> THEN <<>>
    ELSE (IF SeqHas(others, Head(concepts)) THEN <<>> ELSE <<Warning(type, Head(concepts))>>)
         \o WarningsFor(Tail(concepts), others, type)

\* parser.ts:152-183
GenerateWarnings(unique, defs) ==
    WarningsFor(ObjectKeys(defs), conceptsInPredicates(unique), "orphaned_definition")
    \o WarningsFor(conceptsInPredicates(unique), ObjectKeys(defs), "missing_definition")

\* parser.ts:134-142: errors were recorded, return early
ReturnErrors ==
    /\ pc = "post"
    /\ Len(errors) > 0
    /\ result' = [predicates |-> <<>>, definitions |-> <<>>, errors |-> errors,
                  warnings |-> <<>>]
    /\ pc' = "done"
    /\ UNCHANGED <<lines, i, predicates, definitions, errors, conceptName, definitionLines>>
    /\ UNCHANGED mapVars
    /\ UNCHANGED callerVars

\* parser.ts:144-190: deduplicate, generate warnings, return
ReturnParsed ==
    /\ pc = "post"
    /\ Len(errors) = 0
    /\ result' = [predicates |-> uniquePredicates(predicates),
                  definitions |-> definitions,
                  errors |-> errors,
                  warnings |-> GenerateWarnings(uniquePredicates(predicates), definitions)]
    /\ pc' = "done"
    /\ UNCHANGED <<lines, i, predicates, definitions, errors, conceptName, definitionLines>>
    /\ UNCHANGED mapVars
    /\ UNCHANGED callerVars

(***************************************************************************)
(* Input texts: every sequence of 1..MaxLines lines out of InputLines      *)
(***************************************************************************)
\* "a -- r -> b"
LinePredicate == <<"a", " ", "-", "-", " ", "r", " ", "-", ">", " ", "b">>
\* "a- -- r -> b"   (source "a-")
LineDashSource == <<"a", "-", " ", "-", "-", " ", "r", " ", "-", ">", " ", "b">>
\* "a -- -r -> b"   (relationship "-r")
LineDashRelationship == <<"a", " ", "-", "-", " ", "-", "r", " ", "-", ">", " ", "b">>
\* "a -- r -> b->a" (target contains "->")
LineTokenInTarget == <<"a", " ", "-", "-", " ", "r", " ", "-", ">", " ", "b", "-", ">", "a">>
\* "b -> a"         (no "--")
LineMalformed == <<"b", " ", "-", ">", " ", "a">>
\* " a:"
LineHeader == <<" ", "a", ":">>
\* "valueOf:"
LineHeaderValueOf == <<"v", "a", "l", "u", "e", "O", "f", ":">>
\* ":"
LineEmptyHeader == <<":">>
\* "--- "
LineTerminator == <<"-", "-", "-", " ">>
\* " "
LineBlank == <<" ">>

InputLines ==
    { LinePredicate, LineDashSource, LineDashRelationship, LineTokenInTarget,
      LineMalformed, LineHeader, LineHeaderValueOf, LineEmptyHeader,
      LineTerminator, LineBlank }

InputTexts == UNION { [1..n -> InputLines] : n \in 1..MaxLines }

\* the caller has not called parseDSL yet
NotParsed == [t |-> "undefined"]

NoResult == [predicates |-> <<>>, definitions |-> <<>>, errors |-> <<>>, warnings |-> <<>>]

\* types.ts createDefaultFilterState and the empty Maps of a new ConceptMap
DefaultMaxDistance == 2

InitMap ==
    /\ nodes = <<>>
    /\ edges = <<>>
    /\ activeNode = Null
    /\ maxDistance = DefaultMaxDistance
    /\ selectedNodes = {}
    /\ bidirectional = TRUE
    /\ activeRelationship = Null

\* parseDSL called on a text: the state after parser.ts:61-67
InitParser ==
    /\ lines \in InputTexts
    /\ i = 0
    /\ pc = "scan"
    /\ predicates = <<>>
    /\ definitions = <<>>
    /\ errors = <<>>
    /\ conceptName = <<>>
    /\ definitionLines = <<>>
    /\ result = NoResult
    /\ InitMap
    /\ parsed = NotParsed
    /\ dsl = <<>>
    /\ search = Null

NextParser ==
    \/ SkipBlank
    \/ EmptyConceptName
    \/ DuplicateDefinition
    \/ DefinitionStart
    \/ BodyLine
    \/ BodyTerminator
    \/ MissingTerminator
    \/ PredicateLine
    \/ PredicateError
    \/ ScanEnd
    \/ ReturnErrors
    \/ ReturnParsed

SpecParser == InitParser /\ [][NextParser]_vars

(***************************************************************************)
(* Repository: Node, Edge (types.ts) and ConceptMap (concept-map.ts).      *)
(* A Node object owned by the map is named by its id: the map holds one    *)
(* object per id (addNode returns the registered one), and callers pass    *)
(* the objects they got from addNode/getNode.  ForeignNode is a Node the   *)
(* caller built itself and never registered.                               *)
(***************************************************************************)
MaxEdges == 2
MaxPathEdges == 3
MaxDistanceInput == 1

NodeA == <<"a">>
NodeADash == <<"a", "-">>
NodeB == <<"b">>
NodeC == <<"c">>
NodeIds == {NodeA, NodeADash, NodeB}
ForeignNode == <<"z">>

RelR == <<"r">>
RelDashR == <<"-", "r">>
Relationships == {RelR, RelDashR}

\* a reference to a Node object
NodeRef(id) == [t |-> "node", id |-> id]

\* this.nodes.has(id)
HasNode(id) == \E k \in 1..Len(nodes) : nodes[k].id = id

\* getAllNodes(), as the set of the registered nodes
getAllNodes == {nodes[k].id : k \in 1..Len(nodes)}

\* getNode(id) (concept-map.ts:48-50)
getNode(id) == IF HasNode(id) THEN NodeRef(id) ELSE Undefined

\* variant of EdgeId that leaves the relationship out of the id
EdgeIdWithoutRelationship(source, relationship, target) ==
    source \o <<"-", "-", ">">> \o target

\* Edge constructor (types.ts): this.id = `${source.id}--${relationship}-->${target.id}`
EdgeId(source, relationship, target) ==
    source \o Dash2 \o relationship \o <<"-", "-", ">">> \o target

Edge(source, target, relationship) ==
    [id |-> EdgeId(source, relationship, target),
     source |-> source, target |-> target, relationship |-> relationship]

\* this.edges.has(id)
HasEdge(id) == \E k \in 1..Len(edges) : edges[k].id = id

\* getEdge(id) (concept-map.ts:55-57)
getEdge(id) ==
    IF HasEdge(id) THEN edges[CHOOSE k \in 1..Len(edges) : edges[k].id = id] ELSE Undefined

\* Map.prototype.set: an existing key keeps its place and gets the new value
MapSet(map, entry) ==
    IF \E k \in 1..Len(map) : map[k].id = entry.id
    THEN [k \in 1..Len(map) |-> IF map[k].id = entry.id THEN entry ELSE map[k]]
    ELSE Append(map, entry)

\* variant of AddNodeTo that overwrites the definition also when it is omitted
AddNodeToOverwriting(ns, id, definition) ==
    IF \E k \in 1..Len(ns) : ns[k].id = id
    THEN [k \in 1..Len(ns) |->
            IF ns[k].id = id THEN [id |-> id, definition |-> definition] ELSE ns[k]]
    ELSE Append(ns, [id |-> id, definition |-> definition])

\* concept-map.ts:21-34 on the Map ns
AddNodeTo(ns, id, definition) ==
    IF \E k \in 1..Len(ns) : ns[k].id = id
    THEN IF definition # Undefined
         THEN MapSet(ns, [id |-> id, definition |-> definition])
         ELSE ns
    ELSE Append(ns, [id |-> id, definition |-> definition])

\* concept-map.ts:21-34
addNode(id, definition) ==
    /\ nodes' = AddNodeTo(nodes, id, definition)
    /\ UNCHANGED <<edges, activeNode, maxDistance, selectedNodes, bidirectional,
                   activeRelationship>>
    /\ UNCHANGED parserVars
    /\ UNCHANGED callerVars

\* concept-map.ts:39-43 on the Map es
AddEdgeTo(es, source, target, relationship) ==
    MapSet(es, Edge(source, target, relationship))

\* concept-map.ts:39-43
addEdge(source, target, relationship) ==
    /\ edges' = AddEdgeTo(edges, source, target, relationship)
    /\ UNCHANGED <<nodes, activeNode, maxDistance, selectedNodes, bidirectional,
                   activeRelationship>>
    /\ UNCHANGED parserVars
    /\ UNCHANGED callerVars

\* concept-map.ts:78-80
setActiveNode(node) ==
    /\ activeNode' = node
    /\ UNCHANGED <<nodes, edges, maxDistance, selectedNodes, bidirectional,
                   activeRelationship>>
    /\ UNCHANGED parserVars
    /\ UNCHANGED callerVars

\* concept-map.ts:92-94
addSelectedNode(node) ==
    /\ selectedNodes' = selectedNodes \cup {node}
    /\ UNCHANGED <<nodes, edges, activeNode, maxDistance, bidirectional, activeRelationship>>
    /\ UNCHANGED parserVars
    /\ UNCHANGED callerVars

\* variant: removeSelectedNode as Set.clear()
removeSelectedNodeClearing(node) ==
    /\ selectedNodes' = {}
    /\ UNCHANGED <<nodes, edges, activeNode, maxDistance, bidirectional, activeRelationship>>
    /\ UNCHANGED parserVars
    /\ UNCHANGED callerVars

\* concept-map.ts:99-101
removeSelectedNode(node) ==
    /\ selectedNodes' = selectedNodes \ {node}
    /\ UNCHANGED <<nodes, edges, activeNode, maxDistance, bidirectional, activeRelationship>>
    /\ UNCHANGED parserVars
    /\ UNCHANGED callerVars

\* the number NaN; every comparison with it is false
NaN == -2

\* Math.max(0, distance): NaN when an argument is NaN
MathMax0(distance) ==
    IF distance = NaN THEN NaN
    ELSE IF distance > 0 THEN distance ELSE 0

\* concept-map.ts:113-115
setMaxDistance(distance) ==
    /\ maxDistance' = MathMax0(distance)
    /\ UNCHANGED <<nodes, edges, activeNode, selectedNodes, bidirectional, activeRelationship>>
    /\ UNCHANGED parserVars
    /\ UNCHANGED callerVars

\* concept-map.ts:127-129
setBidirectional(flag) ==
    /\ bidirectional' = flag
    /\ UNCHANGED <<nodes, edges, activeNode, maxDistance, selectedNodes, activeRelationship>>
    /\ UNCHANGED parserVars
    /\ UNCHANGED callerVars

\* concept-map.ts:141-143
setActiveRelationship(relationship) ==
    /\ activeRelationship' = relationship
    /\ UNCHANGED <<nodes, edges, activeNode, maxDistance, selectedNodes, bidirectional>>
    /\ UNCHANGED parserVars
    /\ UNCHANGED callerVars

(***************************************************************************)
(* Queries (concept-map.ts:157-291)                                        *)
(***************************************************************************)
\* the value Infinity; it compares through DistanceLeq only
Infinity == -1

\* distance <= maxDistance (concept-map.ts:235)
DistanceLeq(distance, limit) ==
    distance # Infinity /\ limit # NaN /\ distance <= limit

\* variant of AddNeighborsOfEdge that never follows an edge against its direction
AddNeighborsOfEdgeOutgoingOnly(neighbors, edge, node, flag) ==
    IF edge.source = node THEN SetAdd(neighbors, edge.target) ELSE neighbors

\* variant of AddNeighborsOfEdge that follows every edge in both directions
AddNeighborsOfEdgeBothWays(neighbors, edge, node, flag) ==
    IF edge.source = node
    THEN IF edge.target = node
         THEN SetAdd(SetAdd(neighbors, edge.target), edge.source)
         ELSE SetAdd(neighbors, edge.target)
    ELSE IF edge.target = node
         THEN SetAdd(neighbors, edge.source)
         ELSE neighbors

\* the body of the forEach of concept-map.ts:193-200 for one edge
AddNeighborsOfEdge(neighbors, edge, node, flag) ==
    IF edge.source = node
    THEN IF flag /\ edge.target = node
         THEN SetAdd(SetAdd(neighbors, edge.target), edge.source)
         ELSE SetAdd(neighbors, edge.target)
    ELSE IF flag /\ edge.target = node
         THEN SetAdd(neighbors, edge.source)
         ELSE neighbors

RECURSIVE NeighborsUpTo(_, _, _)
NeighborsUpTo(node, flag, k) ==
    IF k = 0 THEN <<>>
    ELSE AddNeighborsOfEdge(NeighborsUpTo(node, flag, k - 1), edges[k], node, flag)

\* concept-map.ts:190-203, Array.from(neighbors) in insertion order
getNeighbors(node, flag) == NeighborsUpTo(node, flag, Len(edges))

SeqRange(seq) == {seq[k] : k \in 1..Len(seq)}

\* the queue entries pushed for the neighbours not yet visited (concept-map.ts:177-180)
Enqueued(fresh, distance) ==
    [k \in 1..Len(fresh) |-> [node |-> fresh[k], distance |-> distance]]

\* variant of Unvisited without the visited.has check
UnvisitedOrNot(neighbors, visited) == neighbors

Unvisited(neighbors, visited) ==
    FilterPositions(neighbors, {k \in 1..Len(neighbors) : neighbors[k] \notin visited}, 1)

\* the while loop of concept-map.ts:166-184; VisitNeighbors is one iteration
\* with the neighbours of the dequeued node
RECURSIVE BreadthFirst(_, _, _, _)
RECURSIVE VisitNeighbors(_, _, _, _, _)
VisitNeighbors(queue, visited, toNode, flag, neighbors) ==
    IF SeqHas(neighbors, toNode)
    THEN Head(queue).distance + 1
    ELSE BreadthFirst(
            Tail(queue) \o Enqueued(Unvisited(neighbors, visited), Head(queue).distance + 1),
            visited \cup SeqRange(neighbors),
            toNode, flag)

BreadthFirst(queue, visited, toNode, flag) ==
    IF queue = <<>> THEN Infinity
    ELSE VisitNeighbors(queue, visited, toNode, flag, getNeighbors(Head(queue).node, flag))

\* concept-map.ts:157-185
calculateDistance(fromNode, toNode, flag) ==
    IF fromNode = toNode THEN 0
    ELSE BreadthFirst(<<[node |-> fromNode, distance |-> 0]>>, {fromNode}, toNode, flag)

\* variant of getDistanceFromActive that counts from the asked node itself
\* when no active node is set
getDistanceFromActiveOrSelf(node) ==
    IF ~ Truthy(activeNode) THEN calculateDistance(node, node, bidirectional)
    ELSE calculateDistance(activeNode.id, node, bidirectional)

\* concept-map.ts:208-213
getDistanceFromActive(node) ==
    IF ~ Truthy(activeNode) THEN Infinity
    ELSE calculateDistance(activeNode.id, node, bidirectional)

\* variant of distanceNodes with distance < maxDistance for distance <= maxDistance
distanceNodesStrictlyWithin ==
    IF Truthy(activeNode)
    THEN {activeNode.id}
         \cup {n \in getAllNodes : DistanceLeq(getDistanceFromActive(n), maxDistance - 1)}
    ELSE {}

\* variant of distanceNodes with distance === maxDistance for distance <= maxDistance
distanceNodesAtMaxDistance ==
    IF Truthy(activeNode)
    THEN {activeNode.id}
         \cup {n \in getAllNodes : getDistanceFromActive(n) = maxDistance}
    ELSE {}

\* concept-map.ts:229-239: the active node and the nodes within maxDistance of it
distanceNodes ==
    IF Truthy(activeNode)
    THEN {activeNode.id}
         \cup {n \in getAllNodes : DistanceLeq(getDistanceFromActive(n), maxDistance)}
    ELSE {}

\* variant of selectionNodes that leaves the neighbours out
selectionNodesWithoutNeighbors == selectedNodes

\* concept-map.ts:241-250: the selected nodes and their neighbours
selectionNodes ==
    selectedNodes \cup UNION {SeqRange(getNeighbors(n, bidirectional)) : n \in selectedNodes}

\* concept-map.ts:254-261: the endpoints of the edges of one relationship
relationshipNodes(relationship) ==
    UNION {{edges[k].source, edges[k].target} :
             k \in {j \in 1..Len(edges) : edges[j].relationship = relationship}}

\* concept-map.ts:252-270: narrow by the active relationship
filterByRelationship(visible) ==
    IF Truthy(activeRelationship)
    THEN {n \in visible : n \in relationshipNodes(activeRelationship.s)}
    ELSE visible

\* variant of getVisibleNodes that shows the whole graph when nothing is
\* active or selected
getVisibleNodesAllWhenEmpty ==
    IF ~ Truthy(activeNode) /\ selectedNodes = {}
    THEN getAllNodes
    ELSE filterByRelationship(distanceNodes \cup selectionNodes)

\* concept-map.ts:218-271, the returned array as a set (it is built from a Set)
getVisibleNodes ==
    IF ~ Truthy(activeNode) /\ selectedNodes = {}
    THEN {}
    ELSE filterByRelationship(distanceNodes \cup selectionNodes)

\* the filter callback of concept-map.ts:280-290
edgeIsVisible(edge) ==
    IF Truthy(activeRelationship)
    THEN /\ edge.source \in getVisibleNodes /\ edge.target \in getVisibleNodes
         /\ edge.relationship = activeRelationship.s
    ELSE edge.source \in getVisibleNodes /\ edge.target \in getVisibleNodes

\* concept-map.ts:276-291
getVisibleEdges ==
    FilterPositions(edges, {k \in 1..Len(edges) : edgeIsVisible(edges[k])}, 1)

(***************************************************************************)
(* The repository driven by a caller that registers the nodes and edges of *)
(* a graph one by one, in one fixed order (the queries below build Sets    *)
(* and never read the order of the Maps), and moves the filter freely.     *)
(* Nodes are added without definitions here, as the repository's tests do. *)
(***************************************************************************)
RegistrationOrder == <<NodeA, NodeADash, NodeB, NodeC>>
RelationshipOrder == <<RelR, RelDashR>>

PositionIn(seq, x) == CHOOSE k \in 1..Len(seq) : seq[k] = x

\* the place of an edge in the caller's order of registration
EdgeRank(source, target, relationship) ==
    (PositionIn(RelationshipOrder, relationship) * Len(RegistrationOrder)
        + PositionIn(RegistrationOrder, source)) * Len(RegistrationOrder)
    + PositionIn(RegistrationOrder, target)

NextNodeToRegister(id) ==
    Len(nodes) < Len(RegistrationOrder) /\ id = RegistrationOrder[Len(nodes) + 1]

NextEdgeToRegister(source, target, relationship, limit) ==
    \/ HasEdge(EdgeId(source, relationship, target))
    \/ /\ Len(edges) < limit
       /\ \A k \in 1..Len(edges) :
            EdgeRank(edges[k].source, edges[k].target, edges[k].relationship)
                < EdgeRank(source, target, relationship)

ActiveRelationshipInputs == {Null, Str(<<>>), Str(RelR)}

InitRepository ==
    /\ lines = <<>>
    /\ i = 0
    /\ pc = "idle"
    /\ predicates = <<>>
    /\ definitions = <<>>
    /\ errors = <<>>
    /\ conceptName = <<>>
    /\ definitionLines = <<>>
    /\ result = NoResult
    /\ InitMap
    /\ parsed = NotParsed
    /\ dsl = <<>>
    /\ search = Null

\* SpecFilter: graphs over three nodes with edges between distinct nodes,
\* every filter operation
NextFilter ==
    \/ \E id \in NodeIds : NextNodeToRegister(id) /\ addNode(id, Undefined)
    \/ \E source \in getAllNodes, target \in getAllNodes, relationship \in Relationships :
          /\ source # target
          /\ NextEdgeToRegister(source, target, relationship, MaxEdges)
          /\ addEdge(source, target, relationship)
    \/ \E id \in getAllNodes \cup {ForeignNode} : setActiveNode(NodeRef(id))
    \/ setActiveNode(Null)
    \/ \E id \in getAllNodes : addSelectedNode(id)
    \/ \E id \in getAllNodes : removeSelectedNode(id)
    \/ \E distance \in (-1)..MaxDistanceInput : setMaxDistance(distance)
    \/ \E flag \in BOOLEAN : setBidirectional(flag)
    \/ \E relationship \in ActiveRelationshipInputs : setActiveRelationship(relationship)

SpecFilter == InitRepository /\ [][NextFilter]_vars

\* SpecDistance: graphs over four nodes with edges between any two nodes
\* (self-loops, cycles) and second, parallel edges next to registered ones;
\* the operations that getDistanceFromActive reads
NextDistance ==
    \/ \E id \in NodeIds \cup {NodeC} : NextNodeToRegister(id) /\ addNode(id, Undefined)
    \/ \E source \in getAllNodes, target \in getAllNodes, relationship \in Relationships :
          /\ relationship = RelR \/ HasEdge(EdgeId(source, RelR, target))
          /\ NextEdgeToRegister(source, target, relationship, MaxPathEdges)
          /\ addEdge(source, target, relationship)
    \/ \E id \in getAllNodes \cup {ForeignNode} : setActiveNode(NodeRef(id))
    \/ setActiveNode(Null)
    \/ \E flag \in BOOLEAN : setBidirectional(flag)

SpecDistance == InitRepository /\ [][NextDistance]_vars

\* SpecSettings: graphs over three nodes with edges between distinct nodes
\* and second, parallel edges next to registered ones; the active node and
\* the selection out of the registered nodes, every filter setting
NextSettings ==
    \/ \E id \in NodeIds : NextNodeToRegister(id) /\ addNode(id, Undefined)
    \/ \E source \in getAllNodes, target \in getAllNodes, relationship \in Relationships :
          /\ source # target
          /\ relationship = RelR \/ HasEdge(EdgeId(source, RelR, target))
          /\ NextEdgeToRegister(source, target, relationship, MaxEdges)
          /\ addEdge(source, target, relationship)
    \/ \E id \in getAllNodes : setActiveNode(NodeRef(id))
    \/ setActiveNode(Null)
    \/ \E id \in getAllNodes : addSelectedNode(id)
    \/ \E id \in getAllNodes : removeSelectedNode(id)
    \/ \E distance \in 0..(MaxDistanceInput + 1) : setMaxDistance(distance)
    \/ \E flag \in BOOLEAN : setBidirectional(flag)
    \/ \E relationship \in {Null, Str(RelR)} : setActiveRelationship(relationship)

SpecSettings == InitRepository /\ [][NextSettings]_vars

(***************************************************************************)
(* SpecGraph: a caller that registers two nodes with and without           *)
(* definitions, registers them again, adds edges and moves every setting   *)
(***************************************************************************)
GraphNodeIds == {NodeA, NodeADash}

\* the definition argument of addNode: omitted, the empty string, a text
GraphDefinitions == {Undefined, Str(<<>>), Str(<<"d">>)}

\* the argument of setMaxDistance: a number
MaxDistanceInputs == ((-1)..MaxDistanceInput) \cup {NaN}

NextGraph ==
    \/ \E id \in GraphNodeIds, definition \in GraphDefinitions :
          /\ HasNode(id) \/ NextNodeToRegister(id)
          /\ addNode(id, definition)
    \/ \E source \in getAllNodes, target \in getAllNodes, relationship \in Relationships :
          /\ NextEdgeToRegister(source, target, relationship, MaxEdges)
          /\ addEdge(source, target, relationship)
    \/ \E id \in getAllNodes : setActiveNode(NodeRef(id))
    \/ setActiveNode(Null)
    \/ \E id \in getAllNodes : addSelectedNode(id)
    \/ \E id \in getAllNodes : removeSelectedNode(id)
    \/ \E distance \in MaxDistanceInputs : setMaxDistance(distance)
    \/ \E flag \in BOOLEAN : setBidirectional(flag)
    \/ \E relationship \in {Null, Str(RelR)} : setActiveRelationship(relationship)

SpecGraph == InitRepository /\ [][NextGraph]_vars

(***************************************************************************)
(* A caller that parses a text, builds a map from the result with          *)
(* fromParsedDeclarations, exports it with toDSL and parses the export     *)
(* (page.tsx:78-86, concept-map.ts:298-353)                                *)
(***************************************************************************)
MaxTextLines == 4

\* String(Object.prototype.valueOf): "function valueOf() { [native code] }"
FunctionSource ==
    <<"f", "u", "n", "c", "t", "i", "o", "n", " ", "v", "a", "l", "u", "e", "O", "f", "(", ")", " ", "{", " ", "[", "n", "a", "t", "i", "v", "e", " ", "c", "o", "d", "e", "]", " ", "}">>

\* String(value), as Array.prototype.join converts an element (null and
\* undefined give the empty string); the only function the texts below reach
\* is Object.prototype.valueOf
ToStringValue(v) ==
    IF v.t = "string" THEN v.s
    ELSE IF v.t = "function" THEN FunctionSource
    ELSE <<>>

\* text.split('\n') (parser.ts:61)
RECURSIVE SplitLines(_, _)
SplitLines(s, current) ==
    IF s = <<>> THEN <<current>>
    ELSE IF Head(s) = "\n" THEN <<current>> \o SplitLines(Tail(s), <<>>)
    ELSE SplitLines(Tail(s), Append(current, Head(s)))

Split(s) == SplitLines(s, <<>>)

\* variant of conceptIds that collects the targets only
RECURSIVE conceptIdsTargetsOnly(_)
conceptIdsTargetsOnly(preds) ==
    IF preds = <<>> THEN <<>>
    ELSE SetAdd(conceptIdsTargetsOnly(SubSeq(preds, 1, Len(preds) - 1)),
                preds[Len(preds)].target)

\* concept-map.ts:302-306
conceptIds(preds) == conceptsInPredicates(preds)

\* concept-map.ts:309-312: addNode(id, parsed.definitions[id]) for every concept id
RECURSIVE NodesOf(_, _, _)
NodesOf(ids, defs, ns) ==
    IF ids = <<>> THEN ns
    ELSE NodesOf(Tail(ids), defs, AddNodeTo(ns, Head(ids), DefinitionsGet(defs, Head(ids))))

\* concept-map.ts:315-319: addEdge(getNode(source), getNode(target), relationship)
RECURSIVE EdgesOf(_, _)
EdgesOf(preds, es) ==
    IF preds = <<>> THEN es
    ELSE EdgesOf(Tail(preds),
                 AddEdgeTo(es, Head(preds).source, Head(preds).target,
                           Head(preds).relationship))

\* concept-map.ts:298-322 on the result of parseDSL; the new map has the
\* default filter state
fromParsedDeclarations ==
    /\ pc = "done" /\ parsed = NotParsed
    /\ parsed' = result
    /\ nodes' = NodesOf(conceptIds(result.predicates), result.definitions, <<>>)
    /\ edges' = EdgesOf(result.predicates, <<>>)
    /\ pc' = "built"
    /\ UNCHANGED <<lines, i, predicates, definitions, errors, conceptName,
                   definitionLines, result, dsl, search>>
    /\ UNCHANGED <<activeNode, maxDistance, selectedNodes, bidirectional,
                   activeRelationship>>

\* `${edge.source.id} -- ${edge.relationship} -> ${edge.target.id}` (concept-map.ts:334)
EdgeLine(edge) ==
    edge.source \o <<" ", "-", "-", " ">> \o edge.relationship
        \o <<" ", "-", ">", " ">> \o edge.target

\* variant: a block for every node whose definition is not undefined
DefinitionBlockWhenDefined(node) ==
    IF node.definition # Undefined
    THEN << node.id \o Colon, ToStringValue(node.definition), Terminator, <<>> >>
    ELSE <<>>

\* concept-map.ts:344-349: the four lines of a node with a truthy definition
DefinitionBlock(node) ==
    IF Truthy(node.definition)
    THEN << node.id \o Colon, ToStringValue(node.definition), Terminator, <<>> >>
    ELSE <<>>

RECURSIVE DefinitionBlocks(_)
DefinitionBlocks(ns) ==
    IF ns = <<>> THEN <<>>
    ELSE DefinitionBlock(Head(ns)) \o DefinitionBlocks(Tail(ns))

\* concept-map.ts:329-353, the returned string
toDSLText(ns, es) ==
    Trim(Join([k \in 1..Len(es) |-> EdgeLine(es[k])]
                  \o (IF Len(es) > 0 THEN << <<>> >> ELSE <<>>)
                  \o DefinitionBlocks(ns),
              <<"\n">>))

\* map.toDSL()
toDSL ==
    /\ pc = "built"
    /\ dsl' = toDSLText(nodes, edges)
    /\ pc' = "exported"
    /\ UNCHANGED parserVarsButPc
    /\ UNCHANGED mapVars
    /\ UNCHANGED <<parsed, search>>

\* parseDSL(map.toDSL()): parser.ts:60-67 on the exported string
ParseExported ==
    /\ pc = "exported"
    /\ lines' = Split(dsl)
    /\ i' = 0
    /\ predicates' = <<>>
    /\ definitions' = <<>>
    /\ errors' = <<>>
    /\ conceptName' = <<>>
    /\ definitionLines' = <<>>
    /\ result' = NoResult
    /\ pc' = "scan"
    /\ UNCHANGED mapVars
    /\ UNCHANGED callerVars

\* "a -- r -> a"
LineSelfLoop == <<"a", " ", "-", "-", " ", "r", " ", "-", ">", " ", "a">>
\* "valueOf -- r -> b"
LineValueOfPredicate == <<"v", "a", "l", "u", "e", "O", "f", " ", "-", "-", " ", "r", " ", "-", ">", " ", "b">>

ExportLines ==
    { LinePredicate, LineSelfLoop, LineDashSource, LineDashRelationship,
      LineValueOfPredicate, LineHeader, LineEmptyHeader, LineTerminator }

ExportTexts == UNION { [1..n -> ExportLines] : n \in 1..MaxTextLines }

InitExport ==
    /\ lines \in ExportTexts
    /\ i = 0
    /\ pc = "scan"
    /\ predicates = <<>>
    /\ definitions = <<>>
    /\ errors = <<>>
    /\ conceptName = <<>>
    /\ definitionLines = <<>>
    /\ result = NoResult
    /\ InitMap
    /\ parsed = NotParsed
    /\ dsl = <<>>
    /\ search = Null

NextExport ==
    \/ NextParser
    \/ fromParsedDeclarations
    \/ toDSL
    \/ ParseExported

SpecExport == InitExport /\ [][NextExport]_vars

(***************************************************************************)
(* SpecSession: a caller that parses a text, builds a map from the result  *)
(* and then moves the filter, taking every node argument from              *)
(* getAllNodes() of that map                                               *)
(***************************************************************************)
SessionLines ==
    { LinePredicate, LineDashSource, LineHeader, LineEmptyHeader, LineTerminator,
      LineBlank }

InitSession ==
    /\ lines \in UNION { [1..n -> SessionLines] : n \in 1..MaxTextLines }
    /\ i = 0
    /\ pc = "scan"
    /\ predicates = <<>>
    /\ definitions = <<>>
    /\ errors = <<>>
    /\ conceptName = <<>>
    /\ definitionLines = <<>>
    /\ result = NoResult
    /\ InitMap
    /\ parsed = NotParsed
    /\ dsl = <<>>
    /\ search = Null

NextSession ==
    \/ NextParser
    \/ fromParsedDeclarations
    \/ /\ pc = "built"
       /\ \/ \E id \in getAllNodes : setActiveNode(getNode(id))
          \/ setActiveNode(Null)
          \/ \E id \in getAllNodes : addSelectedNode(id)
          \/ \E id \in getAllNodes : removeSelectedNode(id)
          \/ \E distance \in 0..MaxDistanceInput : setMaxDistance(distance)
          \/ \E flag \in BOOLEAN : setBidirectional(flag)
          \/ \E relationship \in {Null, Str(RelR)} : setActiveRelationship(relationship)

SpecSession == InitSession /\ [][NextSession]_vars

(***************************************************************************)
(* SpecTermination: parseDSL step by step on a text, then one call of      *)
(* calculateDistance on the map built from it, one loop iteration per      *)
(* step. The engine runs each call to completion, so the steps of the      *)
(* parser and of the search are weakly fair; the caller's calls are not.   *)
(***************************************************************************)
InitTermination ==
    /\ lines \in UNION { [1..n -> { LinePredicate, LineSelfLoop, LineHeader,
                                     LineEmptyHeader, LineTerminator, LineBlank }]
                          : n \in 1..MaxTextLines }
    /\ i = 0
    /\ pc = "scan"
    /\ predicates = <<>>
    /\ definitions = <<>>
    /\ errors = <<>>
    /\ conceptName = <<>>
    /\ definitionLines = <<>>
    /\ result = NoResult
    /\ InitMap
    /\ parsed = NotParsed
    /\ dsl = <<>>
    /\ search = Null

\* concept-map.ts:157-164: the call, the early return 0, the first queue entry
StartSearch(fromNode, toNode, flag) ==
    /\ pc = "built" /\ search = Null
    /\ search' =
          IF fromNode = toNode
          THEN [toNode |-> toNode, flag |-> flag, queue |-> <<>>, visited |-> {},
                pushed |-> <<>>, status |-> "returned", value |-> 0]
          ELSE [toNode |-> toNode, flag |-> flag,
                queue |-> <<[node |-> fromNode, distance |-> 0]>>,
                visited |-> {fromNode}, pushed |-> <<fromNode>>,
                status |-> "running", value |-> 0]
    /\ UNCHANGED parserVars
    /\ UNCHANGED mapVars
    /\ UNCHANGED <<parsed, dsl>>

\* concept-map.ts:166-184: one iteration of the while loop (shift, the for
\* loop over the neighbours), or its exit with Infinity; pushed records every
\* queue.push
SearchStep ==
    /\ search # Null /\ search.status = "running"
    /\ search' =
          IF search.queue = <<>>
          THEN [search EXCEPT !.status = "returned", !.value = Infinity]
          ELSE IF SeqHas(getNeighbors(Head(search.queue).node, search.flag), search.toNode)
          THEN [search EXCEPT !.status = "returned",
                              !.value = Head(search.queue).distance + 1]
          ELSE [search EXCEPT
                  !.queue = Tail(search.queue)
                      \o Enqueued(Unvisited(getNeighbors(Head(search.queue).node, search.flag),
                                            search.visited),
                                  Head(search.queue).distance + 1),
                  !.visited = search.visited
                      \cup SeqRange(Unvisited(getNeighbors(Head(search.queue).node, search.flag),
                                              search.visited)),
                  !.pushed = search.pushed
                      \o Unvisited(getNeighbors(Head(search.queue).node, search.flag),
                                   search.visited)]
    /\ UNCHANGED parserVars
    /\ UNCHANGED mapVars
    /\ UNCHANGED <<parsed, dsl>>

NextTermination ==
    \/ NextParser
    \/ fromParsedDeclarations
    \/ \E fromNode \in getAllNodes, toNode \in getAllNodes \cup {ForeignNode}, flag \in BOOLEAN :
          StartSearch(fromNode, toNode, flag)
    \/ SearchStep

\* The control flow of the steps whose data are costly to compute: on a
\* statement line (parser.ts:116-131) the scanner either moves to the next
\* line or leaves the loop with an error, and the code after the loop
\* (parser.ts:134-190) returns. ControlStep is enabled exactly where
\* PredicateLine, PredicateError, ReturnErrors or ReturnParsed is, and every
\* step it allows is a step of one of the four.
ControlStep ==
    \/ /\ pc = "scan" /\ i < Len(lines)
       /\ CurrentTrimmed # <<>> /\ ~ EndsWith(CurrentTrimmed, Colon)
       /\ \/ i' = i + 1 /\ pc' = "scan"
          \/ i' = i /\ pc' = "post"
    \/ pc = "post" /\ i' = i /\ pc' = "done"

SpecTermination ==
    /\ InitTermination /\ [][NextTermination]_vars
    /\ WF_vars(SkipBlank \/ EmptyConceptName \/ DuplicateDefinition \/ DefinitionStart
                  \/ BodyLine \/ BodyTerminator \/ MissingTerminator \/ ScanEnd)
    /\ WF_<<i, pc>>(ControlStep)
    /\ WF_vars(SearchStep)

(***************************************************************************)
(* SpecPredicate: parsePredicate applied to every line built from at most  *)
(* MaxTokens pieces                                                        *)
(***************************************************************************)
MaxTokens == 7

LinePieces == { <<"a">>, Dash2, Arrow, <<" ">> }

RECURSIVE Concat(_)
Concat(ss) == IF ss = <<>> THEN <<>> ELSE Head(ss) \o Concat(Tail(ss))

\* single characters, for lines with runs of dashes: "a---a->a", "a-->a"
LineCharacters == { <<"a">>, <<"-">>, <<">">> }

PredicateLines ==
    { Concat(ps) : ps \in UNION { [1..n -> LinePieces] : n \in 0..MaxTokens } }
        \cup { Concat(cs) : cs \in UNION { [1..n -> LineCharacters] : n \in 0..(MaxTokens + 1) } }

InitPredicate ==
    /\ lines \in { <<line>> : line \in PredicateLines }
    /\ i = 0
    /\ pc = "call"
    /\ predicates = <<>>
    /\ definitions = <<>>
    /\ errors = <<>>
    /\ conceptName = <<>>
    /\ definitionLines = <<>>
    /\ result = NoResult
    /\ InitMap
    /\ parsed = NotParsed
    /\ dsl = <<>>
    /\ search = Null

\* parsePredicate(line, lineNumber) as parseDSL calls it (parser.ts:118-119)
\* and catches what it throws (parser.ts:122-130)
CallParsePredicate ==
    /\ pc = "call"
    /\ predicates' = IF parsePredicate(Trim(lines[1]), 1).ok
                     THEN <<parsePredicate(Trim(lines[1]), 1).predicate>>
                     ELSE <<>>
    /\ errors' = IF parsePredicate(Trim(lines[1]), 1).ok
                 THEN <<>>
                 ELSE <<ParseError(0, parsePredicate(Trim(lines[1]), 1))>>
    /\ pc' = "returned"
    /\ UNCHANGED <<lines, i, definitions, conceptName, definitionLines, result>>
    /\ UNCHANGED mapVars
    /\ UNCHANGED callerVars

NextPredicate == CallParsePredicate

SpecPredicate == InitPredicate /\ [][NextPredicate]_vars

(***************************************************************************)
(* The grammar of the DSL, stated independently of the scanner: the first  *)
(* invalid top-level statement of a text, if any                           *)
(***************************************************************************)
\* the fields of a predicate line: split at the first "--" and at the first
\* "->" after it
GrammarFirstDash(s) == SetMin({p \in 1..Len(s) : OccursAt(s, p, Dash2)})
GrammarFirstArrow(s, from) == SetMin({q \in from..Len(s) : OccursAt(s, q, Arrow)})

GrammarSplits(s) ==
    /\ \E p \in 1..Len(s) : OccursAt(s, p, Dash2)
    /\ \E q \in (GrammarFirstDash(s) + 2)..Len(s) : OccursAt(s, q, Arrow)

GrammarFields(s) ==
    [source       |-> Trim(SubSeq(s, 1, GrammarFirstDash(s) - 1)),
     relationship |-> Trim(SubSeq(s, GrammarFirstDash(s) + 2,
                                  GrammarFirstArrow(s, GrammarFirstDash(s) + 2) - 1)),
     target       |-> Trim(SubSeq(s, GrammarFirstArrow(s, GrammarFirstDash(s) + 2) + 2,
                                  Len(s)))]

GrammarFieldValid(f) == f # <<>> /\ ~ Includes(f, Dash2) /\ ~ Includes(f, Arrow)

GrammarPredicateValid(s) ==
    /\ GrammarSplits(s)
    /\ GrammarFieldValid(GrammarFields(s).source)
    /\ GrammarFieldValid(GrammarFields(s).relationship)
    /\ GrammarFieldValid(GrammarFields(s).target)

\* the line numbers (1-based) after k that hold a terminator
TerminatorsAfter(ls, k) == {t \in (k + 1)..Len(ls) : Trim(ls[t]) = Terminator}

\* the first invalid top-level statement of the lines ls from line k on, given
\* the concept ids whose definition blocks were completed before line k:
\* [kind, line], kind "none" when every statement is valid
RECURSIVE FirstInvalid(_, _, _)
FirstInvalid(ls, k, completed) ==
    IF k > Len(ls) THEN [kind |-> "none", line |-> 0]
    ELSE IF Trim(ls[k]) = <<>> THEN FirstInvalid(ls, k + 1, completed)
    ELSE IF EndsWith(Trim(ls[k]), Colon)
    THEN IF HeaderConcept(Trim(ls[k])) = <<>>
         THEN [kind |-> "empty concept", line |-> k]
         ELSE IF HeaderConcept(Trim(ls[k])) \in completed
         THEN [kind |-> "duplicate", line |-> k]
         ELSE IF TerminatorsAfter(ls, k) = {}
         THEN [kind |-> "unterminated", line |-> k]
         ELSE FirstInvalid(ls, SetMin(TerminatorsAfter(ls, k)) + 1,
                           completed \cup {HeaderConcept(Trim(ls[k]))})
    ELSE IF ~ GrammarPredicateValid(Trim(ls[k]))
         THEN [kind |-> "predicate", line |-> k]
         ELSE FirstInvalid(ls, k + 1, completed)

HasInvalidStatement(ls) == FirstInvalid(ls, 1, {}).kind # "none"

(***************************************************************************)
(* Claims about parseDSL                                                   *)
(***************************************************************************)
\* C1: for every text with an invalid top-level statement (malformed
\* predicate, empty concept id, duplicate definition, unterminated
\* definition) parseDSL returns exactly one error and empty predicates,
\* definitions and warnings; and in every result, errors non-empty implies
\* predicates and definitions empty.
C1_FailFastResultShape ==
    pc = "done" =>
        /\ HasInvalidStatement(lines) =>
              /\ Len(result.errors) = 1
              /\ result.predicates = <<>>
              /\ result.definitions = <<>>
              /\ result.warnings = <<>>
        /\ Len(result.errors) > 0 =>
              /\ result.predicates = <<>>
              /\ result.definitions = <<>>

\* the predicates of preds whose triple did not occur earlier in preds, in order
FirstOccurrencesByTriple(preds) ==
    FilterPositions(preds,
                    {k \in 1..Len(preds) : \A j \in 1..(k - 1) : preds[j] # preds[k]},
                    1)

\* C2: on a successful parse two predicates are collapsed iff their
\* (source, relationship, target) triples are equal field by field; the
\* output lists the first occurrence of every triple in original order.
C2_DedupByTriple ==
    (pc = "done" /\ Len(result.errors) = 0) =>
        result.predicates = FirstOccurrencesByTriple(predicates)

\* C10: a definition header naming a concept id whose definition block was
\* already completed earlier in the text makes parseDSL return a
\* 'Duplicate definition' error and no definitions, whatever the body of
\* the earlier block was.
C10_DuplicateDefinitionIsError ==
    (pc = "done" /\ FirstInvalid(lines, 1, {}).kind = "duplicate") =>
        /\ Len(result.errors) = 1
        /\ result.errors[1].message.text = "Duplicate definition"
        /\ result.definitions = <<>>

(***************************************************************************)
(* Claims about distances and visibility                                   *)
(***************************************************************************)
\* some edge leads from u to v; with flag also an edge from v to u counts
Adjacent(u, v, flag) ==
    \E k \in 1..Len(edges) :
        \/ edges[k].source = u /\ edges[k].target = v
        \/ flag /\ edges[k].source = v /\ edges[k].target = u

\* the nodes of reached together with the nodes one edge away from them
OneStepFrom(reached, flag) ==
    reached \cup {v \in getAllNodes : \E u \in reached : Adjacent(u, v, flag)}

\* the number of edges of a shortest path to a node, given the set of the
\* nodes reached over at most k edges: Infinity when the set stops growing
RECURSIVE LayerOf(_, _, _, _)
LayerOf(reached, to, k, flag) ==
    IF to \in reached THEN k
    ELSE IF OneStepFrom(reached, flag) = reached THEN Infinity
    ELSE LayerOf(OneStepFrom(reached, flag), to, k + 1, flag)

ShortestPath(from, to, flag) == LayerOf({from}, to, 0, flag)

\* the nodes a caller can ask about
QueryNodes == getAllNodes \cup {ForeignNode}

\* C3: with an active node and bidirectional = true, getDistanceFromActive
\* is the length of a shortest path with edge directions ignored: 0 for the
\* active node, Infinity exactly when there is no such path.
C3_BidirectionalDistanceIsShortestPath ==
    (Truthy(activeNode) /\ bidirectional) =>
        \A n \in QueryNodes :
            getDistanceFromActive(n) = ShortestPath(activeNode.id, n, TRUE)

\* a node three edges away that is reached only against the direction of
\* the edges, next to a node that is not reached at all
C3_Witness ==
    /\ Truthy(activeNode) /\ bidirectional
    /\ \E n \in getAllNodes :
          /\ getDistanceFromActive(n) = 3
          /\ ShortestPath(activeNode.id, n, FALSE) = Infinity
    /\ getDistanceFromActive(ForeignNode) = Infinity
    /\ getDistanceFromActive(activeNode.id) = 0

\* C4: with bidirectional = false, getDistanceFromActive is the length of a
\* shortest directed path, and Infinity whenever there is no directed path,
\* also for a node that is reachable against the direction of the edges.
C4_DirectedDistanceIsShortestPath ==
    (Truthy(activeNode) /\ ~ bidirectional) =>
        \A n \in QueryNodes :
            getDistanceFromActive(n) = ShortestPath(activeNode.id, n, FALSE)

\* the path a -> a- -> b -> c with c active: a is at distance Infinity, and
\* three edges away when directions are ignored
C4_Witness ==
    /\ Truthy(activeNode) /\ ~ bidirectional
    /\ \E n \in getAllNodes :
          /\ getDistanceFromActive(n) = Infinity
          /\ ShortestPath(activeNode.id, n, TRUE) = 3

\* C5: with a registered active node, no selection and no active
\* relationship, getVisibleNodes() is exactly the set of registered nodes
\* whose distance from the active node is <= maxDistance, and it contains
\* the active node.
C5_DistanceBoundedVisibility ==
    (/\ Truthy(activeNode) /\ activeNode.id \in getAllNodes
     /\ selectedNodes = {} /\ activeRelationship = Null) =>
        /\ getVisibleNodes =
              {n \in getAllNodes : DistanceLeq(getDistanceFromActive(n), maxDistance)}
        /\ activeNode.id \in getVisibleNodes

\* maxDistance = 0 with a node one edge away, and a node out of reach
C5_Witness ==
    /\ Truthy(activeNode) /\ activeNode.id \in getAllNodes
    /\ selectedNodes = {} /\ activeRelationship = Null
    /\ maxDistance = 0
    /\ \E n \in getAllNodes : getDistanceFromActive(n) = 1
    /\ \E n \in getAllNodes : getDistanceFromActive(n) = Infinity
    /\ getVisibleNodes = {activeNode.id}

\* the immediate neighbours of a node under the current bidirectional setting
ImmediateNeighbours(n) == {v \in getAllNodes : Adjacent(n, v, bidirectional)}

\* C6: with no active relationship, every selected node and every immediate
\* neighbour of a selected node is visible, whatever maxDistance and the
\* active node are; with no active node the visible nodes are exactly these.
C6_SelectionIndependentOfDistance ==
    activeRelationship = Null =>
        /\ \A n \in selectedNodes :
              n \in getVisibleNodes /\ ImmediateNeighbours(n) \subseteq getVisibleNodes
        /\ activeNode = Null =>
              getVisibleNodes =
                  selectedNodes \cup UNION {ImmediateNeighbours(n) : n \in selectedNodes}

\* a selected node out of reach of the active node, with a neighbour over an
\* incoming edge, while maxDistance = 0
C6_Witness ==
    /\ activeRelationship = Null /\ Truthy(activeNode) /\ maxDistance = 0
    /\ \E n \in selectedNodes :
          /\ getDistanceFromActive(n) = Infinity
          /\ \E k \in 1..Len(edges) : edges[k].target = n /\ edges[k].source # n
          /\ ImmediateNeighbours(n) # {}

\* C7: whenever activeRelationship is non-null (the empty string included),
\* getVisibleNodes() is the union of the distance-bounded and the selection
\* node sets intersected with the endpoints of the edges whose relationship
\* equals activeRelationship.
C7_RelationshipFilter ==
    (activeRelationship # Null /\ (Truthy(activeNode) \/ selectedNodes # {})) =>
        getVisibleNodes =
            (distanceNodes \cup selectionNodes)
                \cap relationshipNodes(activeRelationship.s)

\* C8: an edge is returned by getVisibleEdges() iff its source and target
\* are both in getVisibleNodes() and, when activeRelationship is set
\* (non-null), its relationship equals activeRelationship.
C8_VisibleEdges ==
    \A k \in 1..Len(edges) :
        SeqHas(getVisibleEdges, edges[k]) <=>
            /\ edges[k].source \in getVisibleNodes
            /\ edges[k].target \in getVisibleNodes
            /\ activeRelationship # Null =>
                  edges[k].relationship = activeRelationship.s

\* C9: with no active node and an empty selection getVisibleNodes() and
\* getVisibleEdges() are empty, whatever the graph and the other settings.
C9_EmptyState ==
    (activeNode = Null /\ selectedNodes = {}) =>
        /\ getVisibleNodes = {}
        /\ getVisibleEdges = <<>>

\* a graph with edges, every other filter setting moved away from its default
C9_Witness ==
    /\ activeNode = Null /\ selectedNodes = {}
    /\ Len(edges) = MaxEdges
    /\ maxDistance # DefaultMaxDistance
    /\ ~ bidirectional
    /\ Truthy(activeRelationship)

(***************************************************************************)
(* Claims about error locations, warnings and the parsed fields            *)
(***************************************************************************)
\* C11: the single ParseError of parseDSL has line equal to the 1-based
\* number of the line on which the failing statement started (for an
\* unterminated definition the line of its header), column 1 and type
\* 'syntax'; the line is never greater than the number of lines.
C11_ErrorLocation ==
    (pc = "done" /\ Len(result.errors) > 0) =>
        /\ result.errors[1].column = 1
        /\ result.errors[1].type = "syntax"
        /\ result.errors[1].line <= Len(lines)
        /\ HasInvalidStatement(lines) =>
              result.errors[1].line = FirstInvalid(lines, 1, {}).line

\* the concept ids that are source or target of a predicate of preds
ConceptsOf(preds) ==
    {preds[k].source : k \in 1..Len(preds)} \cup {preds[k].target : k \in 1..Len(preds)}

\* the concept ids that have a definition entry in defs
DefinedIn(defs) == {defs[k].key : k \in 1..Len(defs)}

\* the warnings of a result as pairs of type and concept
WarningPairs(res) ==
    {<<res.warnings[k].type, res.warnings[k].message>> : k \in 1..Len(res.warnings)}

\* C12: on a successful parse, warnings holds exactly one
\* 'orphaned_definition' warning per defined concept that is in no predicate,
\* exactly one 'missing_definition' warning per predicate concept without a
\* definition entry, and nothing else.
C12_WarningCompleteness ==
    (pc = "done" /\ Len(result.errors) = 0) =>
        /\ WarningPairs(result) =
              {<<"orphaned_definition", c>> :
                  c \in DefinedIn(result.definitions) \ ConceptsOf(result.predicates)}
              \cup {<<"missing_definition", c>> :
                  c \in ConceptsOf(result.predicates) \ DefinedIn(result.definitions)}
        /\ Cardinality(WarningPairs(result)) = Len(result.warnings)

\* a successful parse with an orphaned definition and a concept that is only
\* a target and has no definition
C12_Witness ==
    /\ pc = "done" /\ Len(result.errors) = 0
    /\ \E k \in 1..Len(result.warnings) : result.warnings[k].type = "orphaned_definition"
    /\ \E k \in 1..Len(result.warnings) :
          /\ result.warnings[k].type = "missing_definition"
          /\ \A j \in 1..Len(result.predicates) :
                result.predicates[j].source # result.warnings[k].message

(***************************************************************************)
(* Claims about fromParsedDeclarations and toDSL                           *)
(***************************************************************************)
\* C13: fromParsedDeclarations creates exactly one node per distinct concept
\* id that is source or target of a predicate and no other node; a node
\* carries the definition of parsed.definitions when there is one for its id
\* and has no definition otherwise.
C13_NodesFromPredicates ==
    parsed # NotParsed =>
        /\ getAllNodes = ConceptsOf(parsed.predicates)
        /\ Cardinality(getAllNodes) = Len(nodes)
        /\ \A k \in 1..Len(nodes) :
              nodes[k].definition =
                  IF nodes[k].id \in DefinedIn(parsed.definitions)
                  THEN DefinitionsGet(parsed.definitions, nodes[k].id)
                  ELSE Undefined

\* C14: for an error-free result, fromParsedDeclarations yields as many
\* edges as there are predicates; every predicate (s, r, t) has the edge
\* with id s--r-->t, source s, target t and relationship r.
C14_EdgePerPredicate ==
    (parsed # NotParsed /\ Len(parsed.errors) = 0) =>
        /\ Len(edges) = Len(parsed.predicates)
        /\ \A k \in 1..Len(parsed.predicates) :
              \E j \in 1..Len(edges) :
                  /\ edges[j].id = parsed.predicates[k].source \o <<"-", "-">>
                                     \o parsed.predicates[k].relationship
                                     \o <<"-", "-", ">">> \o parsed.predicates[k].target
                  /\ edges[j].source = parsed.predicates[k].source
                  /\ edges[j].target = parsed.predicates[k].target
                  /\ edges[j].relationship = parsed.predicates[k].relationship
                  /\ edges[j].source \in getAllNodes
                  /\ edges[j].target \in getAllNodes

\* two edges between the same pair of nodes that differ in the relationship
C14_Witness ==
    /\ parsed # NotParsed /\ Len(parsed.errors) = 0
    /\ \E j, k \in 1..Len(edges) :
          /\ edges[j].source = edges[k].source
          /\ edges[j].target = edges[k].target
          /\ edges[j].relationship # edges[k].relationship

\* C15: for a predicate-only text that parses without error, the export of
\* the map built from it parses without error into the same set of
\* (source, relationship, target) triples.
C15_ExportRoundTrip ==
    (/\ pc = "done" /\ parsed # NotParsed
     /\ Len(parsed.errors) = 0 /\ parsed.definitions = <<>>) =>
        /\ Len(result.errors) = 0
        /\ SeqRange(result.predicates) = SeqRange(parsed.predicates)

(***************************************************************************)
(* Claims about the graph operations and the settings                      *)
(***************************************************************************)
\* a step of addNode that changed the Map: a new node at the end, or a new
\* definition (never an absent one) for one registered node
AddNodeStep ==
    \/ /\ Len(nodes') = Len(nodes) + 1
       /\ SubSeq(nodes', 1, Len(nodes)) = nodes
       /\ nodes'[Len(nodes')].id \notin getAllNodes
    \/ /\ Len(nodes') = Len(nodes)
       /\ \E k \in 1..Len(nodes) :
             /\ nodes'[k].definition # Undefined
             /\ nodes' = [nodes EXCEPT ![k].definition = nodes'[k].definition]

C17_AddEdgeGrowsByOne ==
    /\ [](\A k \in 1..Len(edges) :
            /\ edges[k].id = edges[k].source \o <<"-", "-">> \o edges[k].relationship
                               \o <<"-", "-", ">">> \o edges[k].target
            /\ getEdge(edges[k].id) = edges[k])
    /\ [][edges' # edges =>
            /\ Len(edges') = Len(edges) + 1
            /\ SubSeq(edges', 1, Len(edges)) = edges]_vars

\* C18: maxDistance is an integer >= 0 in every reachable state.
C18_MaxDistanceIsNatural == maxDistance \in Nat

\* a field as the spec wants it: non-empty, no white space at either end,
\* no '--', no '->', no newline
FieldWellFormed(f) ==
    /\ f # <<>>
    /\ ~ IsWhitespace(f[1]) /\ ~ IsWhitespace(f[Len(f)])
    /\ \A k \in 1..Len(f) : f[k] # "\n"
    /\ \A k \in 1..(Len(f) - 1) : ~ (f[k] = "-" /\ f[k + 1] \in {"-", ">"})

\* C19: every predicate that parsePredicate hands to parseDSL has a source,
\* a relationship and a target that are non-empty, trimmed and free of
\* '--', '->' and newlines; a line whose split gives an empty field or a
\* field containing '--' or '->' fails instead.
C19_PredicateFieldsWellFormed ==
    pc = "returned" =>
        /\ \A k \in 1..Len(predicates) :
              /\ FieldWellFormed(predicates[k].source)
              /\ FieldWellFormed(predicates[k].relationship)
              /\ FieldWellFormed(predicates[k].target)
        /\ ~ GrammarPredicateValid(Trim(lines[1])) =>
              Len(predicates) = 0 /\ Len(errors) = 1

\* a line that splits into three fields, one of them with '->' inside, and
\* is rejected
C19_Witness ==
    /\ pc = "returned"
    /\ GrammarSplits(Trim(lines[1]))
    /\ GrammarFields(Trim(lines[1])).source # <<>>
    /\ GrammarFields(Trim(lines[1])).relationship # <<>>
    /\ Includes(GrammarFields(Trim(lines[1])).target, Arrow)
    /\ Len(errors) = 1

\* C20: with no active node getDistanceFromActive is Infinity for every
\* node, whatever the edges and bidirectional are.
C20_NoActiveNodeIsInfinity ==
    activeNode = Null =>
        \A n \in QueryNodes : getDistanceFromActive(n) = Infinity

\* no active node in a graph with edges, bidirectional switched off
C20_Witness ==
    /\ activeNode = Null
    /\ Len(edges) > 0
    /\ ~ bidirectional

(***************************************************************************)
(* Claims about the selection, the export format and the definition blocks *)
(***************************************************************************)
\* C21: the selection behaves as a set of nodes: addSelectedNode of a
\* selected node leaves it unchanged and of another node adds exactly that
\* node; removeSelectedNode removes exactly that node and changes nothing
\* for a node that is not selected; adding and then removing a node that
\* was not selected restores the selection.
C21_SelectionIsSet ==
    [][\A n \in NodeIds :
          /\ addSelectedNode(n) =>
                /\ selectedNodes' = IF n \in selectedNodes THEN selectedNodes
                                                            ELSE selectedNodes \cup {n}
                /\ n \notin selectedNodes => selectedNodes' \ {n} = selectedNodes
          /\ removeSelectedNode(n) =>
                /\ n \notin selectedNodes'
                /\ \A m \in selectedNodes : m # n => m \in selectedNodes'
                /\ selectedNodes' \subseteq selectedNodes
                /\ n \notin selectedNodes => selectedNodes' = selectedNodes]_vars

\* two nodes selected, a third registered and not selected
C21_Witness ==
    /\ Cardinality(selectedNodes) = 2
    /\ Cardinality(getAllNodes) = 3

\* the nodes that carry a definition other than the empty string, in
\* registration order
RECURSIVE DefinedNodes(_)
DefinedNodes(ns) ==
    IF ns = <<>> THEN <<>>
    ELSE IF Head(ns).definition \in {Undefined, Str(<<>>)}
         THEN DefinedNodes(Tail(ns))
         ELSE <<Head(ns)>> \o DefinedNodes(Tail(ns))

\* 'source -- relationship -> target' for every edge in insertion order
ExpectedPredicateLines ==
    [k \in 1..Len(edges) |->
        edges[k].source \o <<" ">> \o Dash2 \o <<" ">> \o edges[k].relationship
            \o <<" ">> \o Arrow \o <<" ">> \o edges[k].target]

\* 'id:' / definition / '---' / blank line for every node of ds
RECURSIVE ExpectedBlocks(_)
ExpectedBlocks(ds) ==
    IF ds = <<>> THEN <<>>
    ELSE << Head(ds).id \o <<":">>, ToStringValue(Head(ds).definition),
            <<"-", "-", "-">>, <<>> >> \o ExpectedBlocks(Tail(ds))

\* ls without the blank lines at its end
RECURSIVE WithoutTrailingBlankLines(_)
WithoutTrailingBlankLines(ls) ==
    IF ls # <<>> /\ ls[Len(ls)] = <<>>
    THEN WithoutTrailingBlankLines(SubSeq(ls, 1, Len(ls) - 1))
    ELSE ls

\* C22: toDSL() is the predicate line of every edge in insertion order,
\* a blank line when there is an edge, and the block id: / definition /
\* --- / blank line of every node with a non-empty definition, joined by
\* newlines, without white space at its end; with edges and no definition
\* it is exactly the predicate lines joined by newlines.
C22_ExportFormat ==
    pc = "exported" =>
        /\ dsl = Join(WithoutTrailingBlankLines(
                          ExpectedPredicateLines
                              \o (IF Len(edges) > 0 THEN << <<>> >> ELSE <<>>)
                              \o ExpectedBlocks(DefinedNodes(nodes))),
                      <<"\n">>)
        /\ dsl # <<>> => ~ IsWhitespace(dsl[Len(dsl)])
        /\ (Len(edges) > 0 /\ DefinedNodes(nodes) = <<>>) =>
              dsl = Join(ExpectedPredicateLines, <<"\n">>)

\* an exported map with an edge, a node with a definition text and a node
\* without a definition
C22_Witness ==
    /\ pc = "exported"
    /\ Len(edges) > 0
    /\ \E k \in 1..Len(nodes) :
          nodes[k].definition.t = "string" /\ nodes[k].definition # Str(<<>>)
    /\ \E k \in 1..Len(nodes) : nodes[k].definition = Undefined

\* the definition blocks of the lines ls from line k on: for every header
\* line the concept id and the lines up to the first terminator after it,
\* joined by newline and trimmed
RECURSIVE GrammarBlocks(_, _)
GrammarBlocks(ls, k) ==
    IF k > Len(ls) THEN <<>>
    ELSE IF EndsWith(Trim(ls[k]), Colon) /\ TerminatorsAfter(ls, k) # {}
    THEN << [key   |-> HeaderConcept(Trim(ls[k])),
             value |-> Trim(Join(SubSeq(ls, k + 1, SetMin(TerminatorsAfter(ls, k)) - 1),
                                 <<"\n">>))] >>
            \o GrammarBlocks(ls, SetMin(TerminatorsAfter(ls, k)) + 1)
    ELSE GrammarBlocks(ls, k + 1)

\* the predicates of the lines ls from line k on that stand outside every
\* definition block
RECURSIVE GrammarStatements(_, _)
GrammarStatements(ls, k) ==
    IF k > Len(ls) THEN <<>>
    ELSE IF Trim(ls[k]) = <<>> THEN GrammarStatements(ls, k + 1)
    ELSE IF EndsWith(Trim(ls[k]), Colon)
    THEN IF TerminatorsAfter(ls, k) = {} THEN <<>>
         ELSE GrammarStatements(ls, SetMin(TerminatorsAfter(ls, k)) + 1)
    ELSE IF GrammarSplits(Trim(ls[k]))
         THEN <<GrammarFields(Trim(ls[k]))>> \o GrammarStatements(ls, k + 1)
         ELSE GrammarStatements(ls, k + 1)

\* C23: in a text whose statements are all valid, every header line id:
\* with a non-empty id opens a block that runs to the first line whose
\* trimmed content is ---; the stored definition is the raw lines in
\* between joined by newline and trimmed; the lines of a body give no
\* predicate, no definition and no error, and scanning resumes after the
\* terminator.
C23_DefinitionBlocks ==
    (pc = "done" /\ ~ HasInvalidStatement(lines)) =>
        /\ result.errors = <<>>
        /\ result.definitions = GrammarBlocks(lines, 1)
        /\ predicates = GrammarStatements(lines, 1)

(***************************************************************************)
(* Claims about predicate splitting and the first error                    *)
(***************************************************************************)
\* C24: the fields parsePredicate extracts from a line are the text before
\* the first '--', the text between it and the first '->' after it, and
\* all the text after that '->', each trimmed; the line is rejected as
\* invalid syntax exactly when it has no '--' followed later by '->'.
C24_PredicateSplitting ==
    pc = "returned" =>
        /\ (Len(errors) = 1 /\ errors[1].message.text = "Invalid predicate syntax")
              <=> ~ GrammarSplits(Trim(lines[1]))
        /\ Len(predicates) = 1 => predicates[1] = GrammarFields(Trim(lines[1]))
        /\ (Len(errors) = 1 /\ errors[1].message.text = "Invalid tokens in source concept")
              => errors[1].message.detail = GrammarFields(Trim(lines[1])).source
        /\ (Len(errors) = 1 /\ errors[1].message.text = "Invalid tokens in relationship")
              => errors[1].message.detail = GrammarFields(Trim(lines[1])).relationship
        /\ (Len(errors) = 1 /\ errors[1].message.text = "Invalid tokens in target concept")
              => errors[1].message.detail = GrammarFields(Trim(lines[1])).target

\* an accepted line whose first '--' opens a longer run of dashes, so the
\* relationship starts with '-'
C24_Witness ==
    /\ pc = "returned"
    /\ Len(predicates) = 1
    /\ predicates[1].relationship[1] = "-"

\* the kind of invalid statement an error message reports
ReportedKind(text) ==
    IF text = "Empty concept name in definition" THEN "empty concept"
    ELSE IF text = "Duplicate definition" THEN "duplicate"
    ELSE IF text = "Missing definition terminator" THEN "unterminated"
    ELSE "predicate"

\* what an error about the predicate line s may quote: nothing, the line, or
\* one of its fields
QuotableTexts(s) ==
    {<<>>, s} \cup (IF GrammarSplits(s)
                    THEN {GrammarFields(s).source, GrammarFields(s).relationship,
                          GrammarFields(s).target}
                    ELSE {})

\* C25: when a text has invalid statements, parseDSL reports exactly the
\* topmost one: the one error is of that statement's kind and is about that
\* statement (its line for a malformed predicate, an empty or duplicate
\* header; its concept id for an unterminated block), it is what that
\* statement alone gives, and the predicates and definitions parsed before
\* it are discarded.
C25_FirstErrorWins ==
    (pc = "done" /\ HasInvalidStatement(lines)) =>
        /\ Len(result.errors) = 1
        /\ result.predicates = <<>> /\ result.definitions = <<>>
        /\ ReportedKind(result.errors[1].message.text) = FirstInvalid(lines, 1, {}).kind
        /\ FirstInvalid(lines, 1, {}).kind = "unterminated" =>
              result.errors[1].message.detail
                  = HeaderConcept(Trim(lines[FirstInvalid(lines, 1, {}).line]))
        /\ FirstInvalid(lines, 1, {}).kind # "unterminated" =>
              /\ result.errors[1].line = FirstInvalid(lines, 1, {}).line
              /\ result.errors[1].message.line = FirstInvalid(lines, 1, {}).line
        /\ FirstInvalid(lines, 1, {}).kind = "predicate" =>
              result.errors[1].message.detail
                  \in QuotableTexts(Trim(lines[FirstInvalid(lines, 1, {}).line]))

(***************************************************************************)
(* Claims about what the repository operations change                      *)
(***************************************************************************)
\* the (source, relationship, target) triples of the edges es
TriplesOf(es) ==
    { <<es[k].source, es[k].relationship, es[k].target>> : k \in 1..Len(es) }

\* C26: no step removes a node or an edge; a step that changes one of the
\* five filter fields leaves nodes, definitions and edges as they are, a
\* step that changes nodes or edges leaves the filter fields as they are,
\* and the exported text stays the same while nodes and edges do.
C26_Frame ==
    [][/\ getAllNodes \subseteq getAllNodes'
       /\ TriplesOf(edges) \subseteq TriplesOf(edges')
       /\ (<<activeNode, maxDistance, selectedNodes, bidirectional, activeRelationship>>'
              # <<activeNode, maxDistance, selectedNodes, bidirectional, activeRelationship>>)
            => UNCHANGED <<nodes, edges>>
       /\ UNCHANGED <<nodes, edges>> => toDSLText(nodes', edges') = toDSLText(nodes, edges)
      ]_vars

\* C27: for registered nodes and relationships that satisfy the predicate
\* field rules (non-empty, no '--', no '->'), two edges have the same
\* derived id only if their sources, relationships and targets are equal;
\* so addEdge never replaces an edge whose (source, relationship, target)
\* differs from the new edge's.
C27_EdgeIdsIdentifyTriples ==
    /\ [](\A s1 \in getAllNodes, t1 \in getAllNodes, s2 \in getAllNodes, t2 \in getAllNodes :
            \A r1 \in Relationships, r2 \in Relationships :
               (/\ \A f \in {s1, t1, s2, t2, r1, r2} : GrammarFieldValid(f)
                /\ EdgeId(s1, r1, t1) = EdgeId(s2, r2, t2))
               => <<s1, r1, t1>> = <<s2, r2, t2>>)
    /\ [][\A k \in 1..Len(edges) : \A j \in 1..Len(edges') :
             edges'[j].id = edges[k].id =>
                /\ edges'[j].source = edges[k].source
                /\ edges'[j].relationship = edges[k].relationship
                /\ edges'[j].target = edges[k].target]_vars

(***************************************************************************)
(* Claims about the filter settings and referential integrity              *)
(***************************************************************************)
\* d1 <= d2 for distances, Infinity being the largest
DistanceAtMost(d1, d2) == d2 = Infinity \/ (d1 # Infinity /\ d1 <= d2)

\* C28: with graph, active node, selection and activeRelationship fixed, a
\* step that raises maxDistance or switches bidirectional from false to
\* true removes no node from getVisibleNodes() and no edge from
\* getVisibleEdges(), and no distance from the active node grows.
C28_VisibilityMonotone ==
    [][(/\ UNCHANGED <<nodes, edges, activeNode, selectedNodes, activeRelationship>>
        /\ maxDistance' >= maxDistance
        /\ bidirectional => bidirectional'
        /\ <<maxDistance, bidirectional>>' # <<maxDistance, bidirectional>>)
       => /\ getVisibleNodes \subseteq getVisibleNodes'
          /\ \A k \in 1..Len(edges) : edgeIsVisible(edges[k]) => edgeIsVisible(edges[k])'
          /\ \A n \in QueryNodes :
                DistanceAtMost(getDistanceFromActive(n)', getDistanceFromActive(n))
      ]_vars

\* maxDistance raised to 2 and bidirectional switched on, with visible,
\* unselected nodes one and two edges from the active node, the nearer one
\* out of reach of every directed path
C28_Witness ==
    /\ Truthy(activeNode) /\ maxDistance = 2 /\ bidirectional
    /\ \E n \in getVisibleNodes \ selectionNodes :
          /\ getDistanceFromActive(n) = 1
          /\ calculateDistance(activeNode.id, n, FALSE) = Infinity
    /\ \E n \in getVisibleNodes \ selectionNodes : getDistanceFromActive(n) = 2
    /\ getVisibleEdges # <<>>

\* C29: in a map built by fromParsedDeclarations and driven by filter
\* operations whose node arguments are nodes of that map, the source and the
\* target of every edge are registered nodes, the active node and every
\* selected node are registered nodes, and getVisibleNodes() holds only
\* registered nodes, each id once.
C29_ReferentialIntegrity ==
    parsed # NotParsed =>
        /\ \A k \in 1..Len(edges) :
              getNode(edges[k].source) # Undefined /\ getNode(edges[k].target) # Undefined
        /\ activeNode # Null => getNode(activeNode.id) = activeNode
        /\ \A n \in selectedNodes : getNode(n) # Undefined
        /\ getVisibleNodes \subseteq getAllNodes
        /\ Cardinality(getAllNodes) = Len(nodes)

\* a built map with three nodes and two edges, an active node, a selected
\* node that is not the active one, and all three nodes visible
C29_Witness ==
    /\ parsed # NotParsed
    /\ Len(nodes) = 3 /\ Len(edges) = 2
    /\ activeNode # Null
    /\ selectedNodes # {} /\ activeNode.id \notin selectedNodes
    /\ Cardinality(getVisibleNodes) = 3

(***************************************************************************)
(* Claims about termination                                                *)
(***************************************************************************)
\* C30: parseDSL terminates on every text: every step of its loops either
\* advances the line index or leaves the loop, and a started parse returns;
\* the breadth-first search terminates on every graph, cycles and
\* self-loops included: no node id is pushed on the queue twice, and a
\* started search returns.
C30_Termination ==
    /\ [][(pc \in {"scan", "body"} /\ <<i, pc>>' # <<i, pc>>)
            => (i' = i + 1 \/ pc' = "post")]_vars
    /\ (pc \in {"scan", "body"}) ~> (pc = "done")
    /\ [](search # Null =>
            \A j \in 1..Len(search.pushed), k \in 1..Len(search.pushed) :
                search.pushed[j] = search.pushed[k] => j = k)
    /\ (search # Null) ~> (search # Null /\ search.status = "returned")

\* a returned search for a node out of reach, in a graph with a self-loop
\* and a second edge, with edges followed in both directions, started at
\* the node without the self-loop: it went through both nodes
C30_Witness ==
    /\ pc = "built" /\ search # Null
    /\ search.status = "returned" /\ search.value = Infinity
    /\ search.flag /\ Len(search.pushed) = 2
    /\ \E k \in 1..Len(edges) :
          edges[k].source = edges[k].target /\ edges[k].source # search.pushed[1]

====
